---- MODULE Spec2Model ----
(***************************************************************************)
(* The dungeon game server (src/unnamed/part_001, the memory-aware draft): *)
(* the room registry, the identity registry, the turn state machine and    *)
(* the asynchronous narration pipeline, as a state machine.                *)
(*                                                                         *)
(* The server is one single-threaded event loop.  One action of the model  *)
(* is one macrotask: a socket event handler, a timer callback, or the      *)
(* resumption of an async function after an awaited network call, run up   *)
(* to its next real suspension (await on fetch / textToImage / setTimeout).*)
(* An await on an already resolved promise is a microtask and is part of   *)
(* the same step.                                                          *)
(***************************************************************************)
EXTENDS Integers, Sequences, FiniteSets, Bags, TLC

\* ------------------------------------------------------------- bounds
MaxConn == 4        \* socket ids ever issued by the transport, standard mode
MaxConnSlow == 3    \* the same, standard mode with fast-debug off
MaxConnDebug == 2   \* the same, single-player debug mode
MaxTasks == 2       \* async continuations pending at once
MaxObj == 3         \* room objects alive (registered or held by a continuation)
MaxTimers == 2      \* join timers pending at once
MaxTimersSlow == 1  \* the same with fast-debug off
MaxHistory == 7     \* lines a room's history may reach
MaxFastHistory == 4 \* the same in fast-debug mode, where history is never cut
MaxLevel == 6       \* levels a room may reach, debug mode
MaxLevelStd == 2    \* the same, standard mode
MaxMemoLevel == 1   \* levels on which a history may outgrow the summariser's trigger
MaxMemoryStd == 1   \* summaries after which a standard-mode room is sent no more requests
MaxTasksDebug == 1  \* async continuations pending at once, debug mode
MaxRoundHistory == 8 \* lines a fast-debug room holds at most: a standard round of three and its GM pass
MaxContentLen == 300 \* characters of the longest answer of the LLM

RoomSeq == <<"r1", "r2">>
RoomIds == {RoomSeq[i] : i \in DOMAIN RoomSeq}
ActionTypes == <<"use", "say">>

\* ---------------------------------------------------- program constants
END_LEVEL == 5               \* if (room.state.level > 5)
HISTORY_TRIGGER == 4         \* if (room.state.history.length > 4)
HISTORY_KEEP == 2            \* room.state.history.slice(-2)
MEMORY_TRIGGER == 3          \* if (room.state.gameMemory.length > 3)
NARRATION_CAP == 250         \* content.slice(0, 250)

GM == -1                     \* state.turn = 'gm'
NoRoom == ""                 \* socket.roomId undefined
NoName == ""                 \* username undefined / empty (falsy)
NoGoal == ""                 \* levelGoals[level] undefined
NoObj == 0                   \* rooms[roomId] undefined

Conns == 1..MaxConn
ObjIds == 1..MaxObj
Levels == 1..MaxLevel

\* The display name a client resolves once at startup and sends with every
\* request: two named users, one without a name, then the same users again
\* on their next connections.
ClientNames == <<"A", "B", NoName>>
NameOf(c) == ClientNames[((c - 1) % Len(ClientNames)) + 1]

\* The button a client presses when it acts.
TypeOf(c) == ActionTypes[((c - 1) % Len(ActionTypes)) + 1]

\* What a client types into the prompt.
ActionText == "pull lever"

\* The room the clients play in; the other one is only entered and left.
PlayRoom == RoomSeq[1]

ERR_ALREADY_IN_ROOM == "already in room"
ERR_ROOM_FULL == "room full"
ERR_ROOM_NOT_FOUND == "room not found"
ERR_NOT_YOUR_TURN == "not your turn"
ERR_INSUFFICIENT == "insufficient players"

VARIABLES
    DEBUG_MODE,        \* process.env.DEBUG_MODE === 'true'
    FAST_DEBUG,        \* process.env.FAST_DEBUG === 'true'
    MISTRAL_API_KEY,   \* process.env.MISTRAL_API_KEY is a key api.mistral.ai accepts
    issued,            \* number of socket ids the transport has issued
    live,              \* io.sockets.sockets: sockets connected to the namespace
    connectedSockets,  \* const connectedSockets = new Set()
    connectedUsers,    \* const connectedUsers = new Map(), in insertion order
    sock,              \* per socket: socket.roomId, socket.username
    groups,            \* socket.io broadcast groups: roomId -> member sockets
    rooms,             \* const rooms = {}: roomId -> room object (NoObj: absent)
    heap,              \* the room objects
    tasks,             \* pending continuations (bag)
    timers,            \* pending join timers (bag)
    crashed            \* an exception escaped a handler and ended the process

vars == <<DEBUG_MODE, FAST_DEBUG, MISTRAL_API_KEY, issued, live, connectedSockets, connectedUsers,
          sock, groups, rooms, heap, tasks, timers, crashed>>

\* ------------------------------------------- what a run is followed through
\* Each mode is followed where its own code paths lie: the lobby (capacity,
\* eviction, join timers, a client straying into a second room) in standard
\* mode, level progress in debug mode, overlapping continuations and the
\* summariser where fast-debug is off.  A fast-debug game runs through a whole
\* round and its GM pass while not every connection has been made.
ConnLimit ==
    IF DEBUG_MODE THEN MaxConnDebug ELSE IF FAST_DEBUG THEN MaxConn ELSE MaxConnSlow
LevelLimit == IF DEBUG_MODE THEN MaxLevel ELSE MaxLevelStd
TimerLimit == IF FAST_DEBUG THEN MaxTimers ELSE MaxTimersSlow
TaskLimit == IF DEBUG_MODE THEN MaxTasksDebug ELSE MaxTasks
HistoryLimit(level) ==
    IF FAST_DEBUG THEN (IF issued < MaxConn THEN MaxRoundHistory ELSE MaxFastHistory)
    ELSE IF level <= MaxMemoLevel THEN MaxHistory ELSE HISTORY_TRIGGER

\* The room ids a client may name or be dealt: the others hold the link to the
\* play room only, the first client of a standard fast-debug server knows both.
KnownRooms(c) ==
    IF c = 1 /\ ~DEBUG_MODE /\ FAST_DEBUG THEN RoomIds ELSE {PlayRoom}

\* ------------------------------------------------------------- strings
UpperCase == "ABCDEFGHIJKLMNOPQRSTUVWXYZ"
LowerCase == "abcdefghijklmnopqrstuvwxyz"
LEVEL_MARKER == "level complete"

CharAt(s, i) == SubSeq(s, i, i)

LowerChar(ch) ==
    IF \E i \in 1..Len(UpperCase) : CharAt(UpperCase, i) = ch
    THEN CharAt(LowerCase, CHOOSE i \in 1..Len(UpperCase) : CharAt(UpperCase, i) = ch)
    ELSE ch

RECURSIVE toLowerCase(_)
toLowerCase(s) ==
    IF Len(s) = 0 THEN s
    ELSE IF Len(s) = 1 THEN LowerChar(s)
    ELSE toLowerCase(SubSeq(s, 1, Len(s) \div 2))
            \o toLowerCase(SubSeq(s, Len(s) \div 2 + 1, Len(s)))

includes(s, sub) ==
    \E i \in 1..(Len(s) - Len(sub) + 1) : SubSeq(s, i, i + Len(sub) - 1) = sub

\* a cut that returns the whole content
slice0_whole(s, n) == s

slice0(s, n) == SubSeq(s, 1, IF Len(s) < n THEN Len(s) ELSE n)

\* The Russian literals are written letter for letter in Latin, lengths kept.
CANNED_INITIAL == "Pered vami temnyj vhod v drevnee podzemel_e. Massivnye kamennye dveri pokryty runami i mhom. Holodnyj vozduh veet iz cernogo proema. Slysny strannye zvuki iz glubiny."
CANNED_PROGRESS == "Vy prodvigaetes_ glubze. Fakely na stenah gorat sinim plamenem, osvesaa mracnyj koridor. Vperedi vidneetsa razvilka putej i slysno tihoe rycanie."
\* no narration at all when the request fails
PLACEHOLDER_none == ""

PLACEHOLDER == "Master igry zadumalsa... Prodolzajte putesestvie."

\* async function getGmResponse(room, isInitial): the string returned, `ok`
\* telling whether the chat completion answered, `content` being its
\* message.content
getGmResponse(isInitial, ok, content) ==
    IF FAST_DEBUG THEN (IF isInitial THEN CANNED_INITIAL ELSE CANNED_PROGRESS)
    ELSE IF ok THEN slice0(content, NARRATION_CAP)
    ELSE PLACEHOLDER

\* async function generateImage(description): the URL returned, `ok` telling
\* whether the image service delivered
generateImage(ok) ==
    IF FAST_DEBUG THEN "fallback" ELSE IF ok THEN "generated" ELSE "fallback"

\* What the LLM may answer (message.content), before the cut to 250.
LlmContents == {"The corridor bends left.", "The gate opens. LEVEL Complete!"}

\* a marker test that is case-sensitive, as in the first draft
IsLevelComplete_exact(text) == includes(text, LEVEL_MARKER)

\* const levelUp = gmResponse.toLowerCase().includes('level complete')
IsLevelComplete(text) == includes(toLowerCase(text), LEVEL_MARKER)

Narrations == {slice0(c, NARRATION_CAP) : c \in LlmContents}
                 \cup {CANNED_INITIAL, CANNED_PROGRESS, PLACEHOLDER}
LevelCompleteOf == [n \in Narrations |-> IsLevelComplete(n)]

\* ------------------------------------------------------------ the heap
getRequiredPlayersCount == IF DEBUG_MODE THEN 1 ELSE 3

NewRoom(c) ==
    [players |-> <<c>>, level |-> 1, turn |-> GM, history |-> <<>>,
     levelGoals |-> [l \in Levels |-> NoGoal], gameMemory |-> <<>>,
     timeout |-> FALSE]

DeadRoom == [NewRoom(1) EXCEPT !.players = <<>>]

NewSocket == [roomId |-> NoRoom, username |-> NoName]

Placeholder(c) == "Player-" \o ToString(c)

\* The server state as one value, so that a handler is a function of it.
Cur ==
    [live |-> live, connectedSockets |-> connectedSockets,
     connectedUsers |-> connectedUsers, sock |-> sock, groups |-> groups,
     rooms |-> rooms, heap |-> heap, tasks |-> tasks, timers |-> timers,
     out |-> <<>>, threw |-> FALSE]

Referenced(st, o) ==
    \/ \E r \in RoomIds : st.rooms[r] = o
    \/ \E t \in BagToSet(st.tasks) : t.obj = o

FreeObjs(st) == {o \in ObjIds : ~Referenced(st, o)}

\* io.to(roomId).emit(ev, arg) and socket.emit(ev, arg)
ToRoom(st, r, ev, arg) ==
    [st EXCEPT !.out = Append(@, [ev |-> ev, rm |-> r, to |-> st.groups[r], arg |-> arg])]
ToSock(st, c, ev, arg) ==
    [st EXCEPT !.out = Append(@, [ev |-> ev, rm |-> NoRoom, to |-> {c}, arg |-> arg])]

Contains(seq, x) == \E i \in DOMAIN seq : seq[i] = x

\* players.findIndex(p => p.id === socket.id)
findIndex(players, c) ==
    IF Contains(players, c)
    THEN (CHOOSE i \in DOMAIN players :
              players[i] = c /\ \A j \in 1..(i - 1) : players[j] # c) - 1
    ELSE -1

\* players.splice(index, 1)
splice(seq, index) == SubSeq(seq, 1, index) \o SubSeq(seq, index + 2, Len(seq))

\* room.players.map(p => p.username).filter(Boolean)
playerNames(st, players) ==
    SelectSeq([i \in DOMAIN players |-> st.sock[players[i]].username],
              LAMBDA n : n # NoName)

\* a deletion that empties the whole registry
DeleteRoom_all(st, r) == [st EXCEPT !.rooms = [x \in RoomIds |-> NoObj]]

\* delete rooms[roomId]: the room's join timer, if pending, can no longer be cleared
DeleteRoom(st, r) ==
    LET o == st.rooms[r] IN
    [st EXCEPT !.rooms[r] = NoObj,
               !.timers = IF st.heap[o].timeout
                          THEN (@ (-) SetToBag({[roomId |-> r, cur |-> TRUE]}))
                                  (+) SetToBag({[roomId |-> r, cur |-> FALSE]})
                          ELSE @]

\* ------------------------------------------------------ turn machine
Spawn(st, t) == [st EXCEPT !.tasks = @ (+) SetToBag({t})]

NewTask(kind, r, o, pc) == [kind |-> kind, roomId |-> r, obj |-> o, pc |-> pc, resp |-> ""]

GmLine(text) == [who |-> "GM", type |-> "", text |-> text]
PlayerLine(name, type, text) == [who |-> name, type |-> type, text |-> text]

\* a turn step that goes from the last player straight back to the first
nextTurn_wrap(st, r) ==
    LET o == st.rooms[r] IN
    IF o = NoObj THEN st
    ELSE LET room == st.heap[o]
             currentTurn == (IF room.turn # GM THEN room.turn ELSE 0) + 1
             turn == IF currentTurn > Len(room.players) THEN 1 ELSE currentTurn
         IN ToRoom([st EXCEPT !.heap[o].turn = turn], r, "playerTurn", turn)

\* function nextTurn(roomId)
nextTurn(st, r) ==
    LET o == st.rooms[r] IN
    IF o = NoObj THEN st
    ELSE LET room == st.heap[o]
             currentTurn == (IF room.turn # GM THEN room.turn ELSE 0) + 1
         IN IF DEBUG_MODE \/ currentTurn > Len(room.players)
            THEN Spawn(ToRoom([st EXCEPT !.heap[o].turn = GM], r, "gmTurn", ""),
                       NewTask("gmpass", r, o, "timer"))
            ELSE ToRoom([st EXCEPT !.heap[o].turn = currentTurn], r,
                        "playerTurn", currentTurn)

\* a GM pass that never looks for the end of the level
GmPassTail_noLevel(st, t) ==
    ToRoom([st EXCEPT !.heap[t.obj].turn = 1], t.roomId, "playerTurn", 1)

\* The GM pass after the narration and the image: nextTurn's setTimeout callback.
GmPassTail(st, t) ==
    LET o == t.obj
        r == t.roomId
        s1 == IF LevelCompleteOf[t.resp]
              THEN LET lvl == st.heap[o].level + 1
                       goal == IF lvl \in Levels /\ st.heap[o].levelGoals[lvl] # NoGoal
                               THEN st.heap[o].levelGoals[lvl]
                               ELSE "Novaa cel_ budet opredelena"
                   IN ToRoom([st EXCEPT !.heap[o].level = lvl,
                                        !.heap[o].history = <<>>],
                             r, "levelComplete", [level |-> lvl, goal |-> goal])
              ELSE st
    IN IF s1.heap[o].level > END_LEVEL
       THEN ToRoom(s1, r, "gameEnd", "")
       ELSE ToRoom([s1 EXCEPT !.heap[o].turn = 1], r, "playerTurn", 1)

\* What follows `await generateImage(...)` in startGame, in the action handler
\* and in the GM pass.
AfterImage(st, t, image) ==
    LET o == t.obj
        r == t.roomId
        s1 == ToRoom(st, r, IF t.kind = "start" THEN "gameStart" ELSE "gmUpdate",
                     [text |-> t.resp, image |-> image])
        s2 == [s1 EXCEPT !.heap[o].history = Append(@, GmLine(t.resp))]
    IN CASE t.kind = "start" ->
              ToRoom([s2 EXCEPT !.heap[o].turn = 1], r, "playerTurn", 1)
         [] t.kind = "action" -> nextTurn(s2, r)
         [] t.kind = "gmpass" -> GmPassTail(s2, t)

\* updateGameMemory: the next LLM request the pass awaits, from stage `from` on;
\* "llm" when the pass is over and getGmResponse goes on to its own request.
MemStage(room, from) ==
    IF from = "goal" /\ room.levelGoals[room.level] = NoGoal THEN "goal"
    ELSE IF from \in {"goal", "summ"} /\ Len(room.history) > HISTORY_TRIGGER THEN "summ"
    ELSE IF Len(room.gameMemory) > MEMORY_TRIGGER THEN "comp"
    ELSE "llm"

\* a narration that gives the progress text also for the start of the game
Narrate_oneText(st, t) ==
    IF FAST_DEBUG
    THEN AfterImage(st, [t EXCEPT !.resp = CANNED_PROGRESS], "fallback")
    ELSE Spawn(st, [t EXCEPT !.pc = MemStage(st.heap[t.obj], "goal")])

\* getGmResponse(room, isInitial) followed by generateImage, up to the first
\* real suspension.  With FAST_DEBUG both return at once and the caller's tail
\* runs in the same macrotask.
Narrate(st, t) ==
    IF FAST_DEBUG
    THEN AfterImage(st, [t EXCEPT !.resp = getGmResponse(t.kind = "start", TRUE, "")],
                    generateImage(TRUE))
    ELSE Spawn(st, [t EXCEPT !.pc = MemStage(st.heap[t.obj], "goal")])

\* async function startGame(roomId)
startGame(st, r) ==
    LET o == st.rooms[r] IN
    IF o = NoObj THEN st
    ELSE LET s1 == IF st.heap[o].timeout
                   THEN [st EXCEPT !.heap[o].timeout = FALSE,
                                   !.timers = @ (-) SetToBag({[roomId |-> r, cur |-> TRUE]})]
                   ELSE st
         IN Narrate(s1, NewTask("start", r, o, ""))

\* ------------------------------------------------------------ registry
has(cu, u) == \E i \in DOMAIN cu : cu[i].name = u
get(cu, u) == cu[CHOOSE i \in DOMAIN cu : cu[i].name = u].id
set(cu, u, c) ==
    IF has(cu, u)
    THEN [i \in DOMAIN cu |-> IF cu[i].name = u THEN [name |-> u, id |-> c] ELSE cu[i]]
    ELSE Append(cu, [name |-> u, id |-> c])
\* for (const [username, id] of connectedUsers.entries()) if (id === socket.id) { delete; break }
deleteFirstOf(cu, c) ==
    IF \E i \in DOMAIN cu : cu[i].id = c
    THEN splice(cu, (CHOOSE i \in DOMAIN cu :
                        cu[i].id = c /\ \A j \in 1..(i - 1) : cu[j].id # c) - 1)
    ELSE cu

\* socket.on('disconnect'), after the transport has taken the socket out of the
\* namespace and of its broadcast groups.  `roomId` is not defined in the
\* handler's scope: the playersUpdate line throws a ReferenceError.
onDisconnect(st, c) ==
    LET s0 == [st EXCEPT !.live = @ \ {c},
                         !.groups = [r \in RoomIds |-> @[r] \ {c}],
                         !.connectedUsers = deleteFirstOf(@, c)]
        rid == s0.sock[c].roomId
        done(s) == [s EXCEPT !.connectedSockets = @ \ {c}]
    IN IF rid # NoRoom /\ s0.rooms[rid] # NoObj
       THEN LET o == s0.rooms[rid]
                index == findIndex(s0.heap[o].players, c)
            IN IF index # -1
               THEN LET username == s0.sock[c].username
                        s1 == [s0 EXCEPT !.heap[o].players = splice(@, index)]
                        s2 == IF username # NoName
                              THEN ToRoom(s1, rid, "playerLeft", username)
                              ELSE s1
                    IN IF Len(s2.heap[o].players) > 0
                       THEN [s2 EXCEPT !.threw = TRUE]
                       ELSE done(DeleteRoom(s2, rid))
               ELSE done(s0)
       ELSE done(s0)

\* Room objects have no address the program can observe.  The object registered
\* under the i-th room id is kept in cell i; an object that continuations still
\* hold when its id is given to a new room moves to a spare cell.
CellOf(r) == CHOOSE i \in DOMAIN RoomSeq : RoomSeq[i] = r
SpareCells(st) == {o \in FreeObjs(st) : o > Len(RoomSeq)}
HeldByTask(st, o) == \E t \in BagToSet(st.tasks) : t.obj = o
CanCreate(st, r) == HeldByTask(st, CellOf(r)) => SpareCells(st) # {}
MoveObject(st, from, to) ==
    LET moved(t) == IF t.obj = from THEN [t EXCEPT !.obj = to] ELSE t
    IN [st EXCEPT !.heap[to] = st.heap[from],
                  !.tasks = [t2 \in {moved(t) : t \in BagToSet(st.tasks)} |->
                               st.tasks[CHOOSE t \in BagToSet(st.tasks) : moved(t) = t2]]]

\* rooms[roomId] = { players: [socket], state: {...} }
CreateRoomObject(st, r, c) ==
    LET o == CellOf(r)
        s0 == IF st.rooms[r] # NoObj THEN DeleteRoom(st, r) ELSE st
        s1 == IF HeldByTask(s0, o)
              THEN MoveObject(s0, o, CHOOSE x \in SpareCells(s0) :
                                         \A y \in SpareCells(s0) : x <= y)
              ELSE s0
    IN [s1 EXCEPT !.rooms[r] = o, !.heap[o] = NewRoom(c)]

\* rooms[roomId].timeout = setTimeout(..., 120000)
ArmJoinTimer(st, r) ==
    [st EXCEPT !.heap[st.rooms[r]].timeout = TRUE,
               !.timers = @ (+) SetToBag({[roomId |-> r, cur |-> TRUE]})]

\* socket.on('createRoom', (username) => ...), roomId the random id drawn
onCreateRoom(st, c, username, roomId) ==
    IF st.sock[c].roomId # NoRoom
    THEN ToSock(st, c, "error", ERR_ALREADY_IN_ROOM)
    ELSE LET name == IF username # NoName THEN username ELSE Placeholder(c)
             s1 == [st EXCEPT !.sock[c] = [roomId |-> roomId, username |-> name]]
             s2 == CreateRoomObject(s1, roomId, c)
             s3 == ToSock([s2 EXCEPT !.groups[roomId] = @ \cup {c}], c,
                          "roomCreated", roomId)
         IN IF ~DEBUG_MODE
            THEN ArmJoinTimer(s3, roomId)
            ELSE startGame(ToRoom(s3, roomId, "playersUpdate", <<name>>), roomId)

\* the end of joinRoom: the playersUpdate broadcast and the start of the game
JoinTail(st, r) ==
    LET players == st.heap[st.rooms[r]].players
        s1 == ToRoom(st, r, "playersUpdate", playerNames(st, players))
    IN IF Len(players) >= getRequiredPlayersCount THEN startGame(s1, r) ELSE s1

\* a capacity check that turns nobody away
roomFull_never(players, c) == FALSE

\* a capacity check that lets one connection too many in
roomFull_late(players, c) ==
    Len(players) > (IF DEBUG_MODE THEN 1 ELSE 3) /\ \A i \in DOMAIN players : players[i] # c

\* a seating step that does not look for the socket in the list
pushAlways(players, c) == Append(players, c)

\* if (!rooms[roomId].players.some(p => p.id === socket.id)) rooms[roomId].players.push(socket)
pushIfAbsent(players, c) == IF ~Contains(players, c) THEN Append(players, c) ELSE players

\* rooms[roomId].players.length >= requiredPlayers && !rooms[roomId].players.some(p => p.id === socket.id)
roomFull(players, c) == Len(players) >= getRequiredPlayersCount /\ ~Contains(players, c)

\* socket.on('joinRoom', (roomId, username) => ...)
onJoinRoom(st, c, roomId, username) ==
    IF st.rooms[roomId] = NoObj
    THEN LET name == IF username # NoName THEN username ELSE Placeholder(c)
             s1 == [st EXCEPT !.sock[c] = [roomId |-> roomId, username |-> name]]
             s2 == CreateRoomObject(s1, roomId, c)
             s3 == [s2 EXCEPT !.groups[roomId] = @ \cup {c}]
         IN JoinTail(IF ~DEBUG_MODE THEN ArmJoinTimer(s3, roomId) ELSE s3, roomId)
    ELSE LET before == st.heap[st.rooms[roomId]].players IN
         IF roomFull(before, c)
         THEN ToSock(st, c, "error", ERR_ROOM_FULL)
         ELSE LET evict == /\ has(st.connectedUsers, username)
                           /\ get(st.connectedUsers, username) # c
                           /\ get(st.connectedUsers, username) \in st.live
                  s1 == IF evict
                        THEN onDisconnect(st, get(st.connectedUsers, username))
                        ELSE st
              IN IF s1.threw THEN s1
                 ELSE LET s2 == [s1 EXCEPT
                                   !.connectedUsers = set(@, username, c),
                                   !.sock[c] = [roomId |-> roomId, username |-> username]]
                      IN IF s2.rooms[roomId] = NoObj
                         THEN [s2 EXCEPT !.threw = TRUE]   \* TypeError: rooms[roomId] is undefined
                         ELSE LET o == s2.rooms[roomId]
                                  s3 == [s2 EXCEPT !.heap[o].players = pushIfAbsent(@, c)]
                              IN JoinTail([s3 EXCEPT !.groups[roomId] = @ \cup {c}],
                                          roomId)

\* a turn check that lets every seated player act
isValidTurn_seated(room, c) == DEBUG_MODE \/ findIndex(room.players, c) # -1

\* const isValidTurn = DEBUG_MODE || (room.state.turn === playerIndex + 1)
isValidTurn(room, c) == DEBUG_MODE \/ room.turn = findIndex(room.players, c) + 1

\* socket.on('action', async ({ roomId, type, text }) => ...)
onAction(st, c, roomId, type, text) ==
    LET o == st.rooms[roomId] IN
    IF o = NoObj THEN ToSock(st, c, "error", ERR_ROOM_NOT_FOUND)
    ELSE LET room == st.heap[o]
         IN IF ~isValidTurn(room, c) THEN ToSock(st, c, "error", ERR_NOT_YOUR_TURN)
            ELSE LET s1 == ToRoom(st, roomId, "sayMessage",
                                  [from |-> st.sock[c].username, text |-> text])
                     s2 == [s1 EXCEPT !.heap[o].history =
                                Append(@, PlayerLine(st.sock[c].username, type, text))]
                 IN Narrate(s2, NewTask("action", roomId, o, ""))

\* a callback that deletes the room without counting its players
onJoinTimeout_uncounted(st, r) ==
    IF st.rooms[r] # NoObj
    THEN DeleteRoom(ToRoom(st, r, "error", ERR_INSUFFICIENT), r)
    ELSE st

\* the join timer's callback
onJoinTimeout(st, r) ==
    IF st.rooms[r] # NoObj /\ Len(st.heap[st.rooms[r]].players) < getRequiredPlayersCount
    THEN DeleteRoom(ToRoom(st, r, "error", ERR_INSUFFICIENT), r)
    ELSE st

\* -------------------------------------------------------------- steps
TasksOn(st, o) ==
    BagCardinality([t \in {x \in BagToSet(st.tasks) : x.obj = o} |-> st.tasks[t]])

\* Lines room object o holds plus those its pending continuations may still
\* add: an action its narration and that of the GM pass it may schedule; with
\* fast-debug the only continuations are GM passes, of one line each.
Potential(st, o) ==
    Len(st.heap[o].history) + (IF FAST_DEBUG THEN 1 ELSE 2) * TasksOn(st, o)

WithinBounds(st) ==
    /\ BagCardinality(st.tasks) <= TaskLimit
    /\ BagCardinality(st.timers) <= TimerLimit
    /\ \A o \in ObjIds : /\ Len(st.heap[o].history) <=
                                (IF FAST_DEBUG THEN MaxRoundHistory ELSE MaxHistory)
                         /\ st.heap[o].level <= LevelLimit

\* The Map's insertion order shows only in the disconnect handler's loop, which
\* stops at the first entry holding the socket's id: while no id is held by two
\* entries the order decides nothing, and the entries are kept in key order.
KeyRank(u) == CHOOSE i \in DOMAIN ClientNames : ClientNames[i] = u
InKeyOrder(cu) ==
    IF \E i, j \in DOMAIN cu : i # j /\ cu[i].id = cu[j].id THEN cu
    ELSE LET S == {cu[i] : i \in DOMAIN cu}
         IN [k \in DOMAIN cu |->
               CHOOSE e \in S :
                  Cardinality({f \in S : KeyRank(f.name) < KeyRank(e.name)}) = k - 1]

SeatedSomewhere(st, c) ==
    \E o \in ObjIds : Referenced(st, o) /\ Contains(st.heap[o].players, c)

\* The state after a handler that ran from Cur to st; a room object or a closed
\* socket that nothing refers to any more is garbage.  An exception that escaped
\* the handler is uncaught (no listener guards it) and ends the process,
\* leaving the state as it was when the exception was thrown.
Install(st) ==
    /\ WithinBounds(st)
    /\ live' = st.live
    /\ connectedSockets' = st.connectedSockets
    /\ connectedUsers' = InKeyOrder(st.connectedUsers)
    /\ sock' = [c \in Conns |-> IF c \in st.live \/ SeatedSomewhere(st, c)
                                THEN st.sock[c] ELSE NewSocket]
    /\ groups' = st.groups
    /\ rooms' = st.rooms
    /\ heap' = [o \in ObjIds |-> IF Referenced(st, o) THEN st.heap[o] ELSE DeadRoom]
    /\ tasks' = st.tasks
    /\ timers' = st.timers
    /\ crashed' = st.threw
    /\ UNCHANGED <<DEBUG_MODE, FAST_DEBUG, MISTRAL_API_KEY, issued>>

\* A request of a client is sent only while the room it may feed has space left.
RoomForLines(st) ==
    \A o \in ObjIds :
        /\ Potential(st, o) <= HistoryLimit(st.heap[o].level)
        /\ ~DEBUG_MODE => Len(st.heap[o].gameMemory) < MaxMemoryStd

\* io.on('connection', (socket) => ...): socket ids are fresh
Connect ==
    /\ ~crashed
    /\ issued < ConnLimit
    /\ issued' = issued + 1
    /\ live' = live \cup {issued + 1}
    /\ connectedSockets' = connectedSockets \cup {issued + 1}
    /\ UNCHANGED <<DEBUG_MODE, FAST_DEBUG, MISTRAL_API_KEY, connectedUsers, sock, groups, rooms, heap,
                   tasks, timers, crashed>>

CreateRoom(c, username, roomId) ==
    /\ ~crashed
    /\ c \in live
    /\ sock[c].roomId # NoRoom \/ CanCreate(Cur, roomId)
    /\ LET st == onCreateRoom(Cur, c, username, roomId)
       IN /\ RoomForLines(st)
          /\ Install(st)

JoinRoom(c, roomId, username) ==
    /\ ~crashed
    /\ c \in live
    /\ rooms[roomId] # NoObj \/ CanCreate(Cur, roomId)
    /\ LET st == onJoinRoom(Cur, c, roomId, username)
       IN /\ RoomForLines(st)
          /\ Install(st)

Action(c, roomId, type) ==
    /\ ~crashed
    /\ c \in live
    /\ LET st == onAction(Cur, c, roomId, type, ActionText)
       IN /\ RoomForLines(st)
          /\ Install(st)

Disconnect(c) ==
    /\ ~crashed
    /\ c \in live
    /\ Install(onDisconnect(Cur, c))

JoinTimerFire(tm) ==
    /\ ~crashed
    /\ BagIn(tm, timers)
    /\ LET s0 == [Cur EXCEPT !.timers = @ (-) SetToBag({tm})]
           s1 == IF tm.cur THEN [s0 EXCEPT !.heap[rooms[tm.roomId]].timeout = FALSE]
                 ELSE s0
       IN Install(onJoinTimeout(s1, tm.roomId))

Taken(t) == [Cur EXCEPT !.tasks = @ (-) SetToBag({t})]

\* setTimeout(async () => { ... }, 2000) in nextTurn fires
GmTimerFire(t) ==
    /\ ~crashed
    /\ BagIn(t, tasks) /\ t.pc = "timer"
    /\ Install(Narrate(Taken(t), t))

\* async function fetchMistral(messages): the answer's text ("llm"), or "" when
\* the request is refused
fetchMistral == IF MISTRAL_API_KEY THEN "llm" ELSE ""

\* updateGameMemory resumes with the goal
GoalFetched(t) ==
    /\ ~crashed
    /\ BagIn(t, tasks) /\ t.pc = "goal"
    /\ LET room == heap[t.obj]
           goal == IF fetchMistral # "" THEN "llm" ELSE "Issledovat_ uroven_ " \o ToString(room.level)
           s1 == [Taken(t) EXCEPT !.heap[t.obj].levelGoals[room.level] = goal]
       IN Install(Spawn(s1, [t EXCEPT !.pc = MemStage(s1.heap[t.obj], "summ")]))

\* a summary step that leaves the history as it is
onSummaryFetched_uncut(st, t) ==
    LET room == st.heap[t.obj]
        s1 == [st EXCEPT !.heap[t.obj].gameMemory =
                            Append(@, [level |-> room.level, summary |-> "llm"])]
    IN Spawn(s1, [t EXCEPT !.pc = IF Len(s1.heap[t.obj].gameMemory) > MEMORY_TRIGGER
                                  THEN "comp" ELSE "llm"])

\* updateGameMemory resumes with the summary of the last four lines
onSummaryFetched(st, t) ==
    LET room == st.heap[t.obj]
        summary == IF fetchMistral # "" THEN "llm" ELSE "Igroki prodvigautsa vpered"
        h == room.history
        s1 == [st EXCEPT
                 !.heap[t.obj].gameMemory =
                     Append(@, [level |-> room.level, summary |-> summary]),
                 !.heap[t.obj].history =
                     SubSeq(h, IF Len(h) > HISTORY_KEEP THEN Len(h) - HISTORY_KEEP + 1
                               ELSE 1, Len(h))]
    IN Spawn(s1, [t EXCEPT !.pc = MemStage(s1.heap[t.obj], "comp")])

SummaryFetched(t) ==
    /\ ~crashed
    /\ BagIn(t, tasks) /\ t.pc = "summ"
    /\ Install(onSummaryFetched(Taken(t), t))

\* a compaction that adds the compressed entry to the memory
onMemoryCompressed_added(st, t) ==
    Spawn([st EXCEPT !.heap[t.obj].gameMemory =
                        Append(@, [level |-> st.heap[t.obj].level, summary |-> "llm"])],
          [t EXCEPT !.pc = "llm"])

\* updateGameMemory resumes with the compressed memory
onMemoryCompressed(st, t) ==
    LET room == st.heap[t.obj]
        compressed == IF fetchMistral # "" THEN "llm" ELSE "Klucevye sobytia putesestvia"
        s1 == [st EXCEPT !.heap[t.obj].gameMemory =
                            <<[level |-> room.level, summary |-> compressed]>>]
    IN Spawn(s1, [t EXCEPT !.pc = "llm"])

MemoryCompressed(t) ==
    /\ ~crashed
    /\ BagIn(t, tasks) /\ t.pc = "comp"
    /\ Install(onMemoryCompressed(Taken(t), t))

PendingLevelUps(o) ==
    BagCardinality([t \in {x \in BagToSet(tasks) :
                              x.obj = o /\ x.kind = "gmpass" /\ x.pc = "img"
                              /\ LevelCompleteOf[x.resp]} |-> tasks[t]])

\* getGmResponse resumes: the chat completion answered `content`
LlmAnswered(t, content) ==
    /\ ~crashed
    /\ MISTRAL_API_KEY
    /\ BagIn(t, tasks) /\ t.pc = "llm"
    /\ LET result == getGmResponse(t.kind = "start", TRUE, content)
       IN /\ (t.kind = "gmpass" /\ LevelCompleteOf[result])
                => heap[t.obj].level + PendingLevelUps(t.obj) < LevelLimit
          /\ Install(Spawn(Taken(t), [t EXCEPT !.pc = "img", !.resp = result]))

\* getGmResponse resumes: the request was refused (!response.ok), caught
LlmRefused(t) ==
    /\ ~crashed
    /\ ~MISTRAL_API_KEY
    /\ BagIn(t, tasks) /\ t.pc = "llm"
    /\ Install(Spawn(Taken(t), [t EXCEPT !.pc = "img",
                                          !.resp = getGmResponse(t.kind = "start", FALSE, "")]))

\* generateImage resumes: the image was written, or the fallback URL is used
ImageDone(t, ok) ==
    /\ ~crashed
    /\ BagIn(t, tasks) /\ t.pc = "img"
    /\ Install(AfterImage(Taken(t), t, generateImage(ok)))

\* values of the environment variable DEBUG_MODE; "" is the variable not set
Settings == {"true", "false", "1", ""}

\* const DEBUG_MODE = process.env.DEBUG_MODE === 'true' || false
DEBUG_MODE_of(setting) == (setting = "true") \/ FALSE

\* src/app/index.js: const DEBUG_MODE = process.env.DEBUG_MODE === 'true' || true
DEBUG_MODE_forced(setting) == (setting = "true") \/ TRUE

Init ==
    /\ DEBUG_MODE \in {DEBUG_MODE_of(setting) : setting \in Settings}
    /\ FAST_DEBUG \in BOOLEAN
    /\ MISTRAL_API_KEY \in (IF FAST_DEBUG THEN {TRUE} ELSE BOOLEAN)   \* never read in fast mode
    /\ issued = 0
    /\ live = {}
    /\ connectedSockets = {}
    /\ connectedUsers = <<>>
    /\ sock = [c \in Conns |-> NewSocket]
    /\ groups = [r \in RoomIds |-> {}]
    /\ rooms = [r \in RoomIds |-> NoObj]
    /\ heap = [o \in ObjIds |-> DeadRoom]
    /\ tasks = EmptyBag
    /\ timers = EmptyBag
    /\ crashed = FALSE

Next ==
    \/ Connect
    \/ \E c \in Conns, r \in RoomIds : r \in KnownRooms(c) /\ CreateRoom(c, NameOf(c), r)
    \/ \E c \in Conns, r \in RoomIds : r \in KnownRooms(c) /\ JoinRoom(c, r, NameOf(c))
    \/ \E c \in Conns : Action(c, PlayRoom, TypeOf(c))
    \/ \E c \in Conns : Disconnect(c)
    \/ \E tm \in BagToSet(timers) : JoinTimerFire(tm)
    \/ \E t \in BagToSet(tasks) : GmTimerFire(t)
    \/ \E t \in BagToSet(tasks) : GoalFetched(t)
    \/ \E t \in BagToSet(tasks) : SummaryFetched(t)
    \/ \E t \in BagToSet(tasks) : MemoryCompressed(t)
    \/ \E t \in BagToSet(tasks), c \in LlmContents : LlmAnswered(t, c)
    \/ \E t \in BagToSet(tasks) : LlmRefused(t)
    \/ \E t \in BagToSet(tasks), ok \in BOOLEAN : ImageDone(t, ok)

Spec == Init /\ [][Next]_vars

\* -------------------------------------------------------------- client
\* players.indexOf(username): the 0-based place of the first match, or -1
indexOf(list, u) ==
    IF \E i \in DOMAIN list : list[i] = u
    THEN (CHOOSE i \in DOMAIN list : list[i] = u /\ \A j \in 1..(i - 1) : list[j] # u) - 1
    ELSE -1

\* socket.on('playersUpdate'): myTurnIndex of the client of connection c, which
\* holds the username it sends, after the list broadcast for `players`
myTurnIndex(st, players, c) == indexOf(playerNames(st, players), NameOf(c))

\* socket.on('playerTurn', (turnIndex) => ...): whether the client with the
\* given myTurnIndex enables its buttons
buttonsEnabled(turnIndex, index) == (turnIndex - 1 = index)

\* ------------------------------------------------------------- claims
RoomOf(r) == heap[rooms[r]]
LiveRooms == {r \in RoomIds : rooms[r] # NoObj}

\* C1: in every reachable state, every room of the registry has turn = GM or
\* turn in 1..N, N the number of its seated players.
C1_TurnInRange ==
    \A r \in LiveRooms :
        RoomOf(r).turn = GM \/ RoomOf(r).turn \in 1..Len(RoomOf(r).players)

\* What a handler did to the server, its emissions aside.
Effect(st) == [st EXCEPT !.out = <<>>]
ErrorTo(c, msg) == [ev |-> "error", rm |-> NoRoom, to |-> {c}, arg |-> msg]
Seat(r, c) == findIndex(RoomOf(r).players, c) + 1

\* the action handler took the request: the player's line is the new last-but-
\* narration line of the history and the narration pipeline has started
Accepted(st, c, r, ty) ==
    LET o == rooms[r]
        line == PlayerLine(sock[c].username, ty, ActionText)
        n == Len(heap[o].history)
    IN /\ Len(st.heap[o].history) > n
       /\ SubSeq(st.heap[o].history, 1, n + 1) = Append(heap[o].history, line)
       /\ IF FAST_DEBUG
          THEN st.heap[o].history[n + 2] = GmLine(CANNED_PROGRESS)
          ELSE BagCardinality(st.tasks) = BagCardinality(tasks) + 1
               /\ \E t \in BagToSet(st.tasks) : t.kind = "action" /\ t.obj = o

\* C2: in standard mode an action addressed to a room of the registry is
\* accepted exactly when the sender's 1-based seat equals the room's turn;
\* otherwise the sender alone gets 'not your turn' and nothing changes.
C2_TurnGate ==
    ~DEBUG_MODE =>
        \A c \in live, r \in LiveRooms : \A i \in DOMAIN ActionTypes :
            LET st == onAction(Cur, c, r, ActionTypes[i], ActionText)
            IN IF Seat(r, c) = RoomOf(r).turn
               THEN Accepted(st, c, r, ActionTypes[i])
               ELSE st.out = <<ErrorTo(c, ERR_NOT_YOUR_TURN)>> /\ Effect(st) = Cur

\* a standard-mode game in which a player line stands in the history while one
\* live seated player is on turn and another live seated player is not
C2_Witness ==
    /\ ~DEBUG_MODE
    /\ \E r \in LiveRooms :
          /\ \E i \in DOMAIN RoomOf(r).history : RoomOf(r).history[i].who # "GM"
          /\ \E c, d \in live : /\ Seat(r, c) = RoomOf(r).turn
                                 /\ Seat(r, d) >= 1 /\ Seat(r, d) # RoomOf(r).turn

ActionsInFlight(o) ==
    BagCardinality([t \in {x \in BagToSet(tasks) : x.obj = o /\ x.kind = "action"}
                      |-> tasks[t]])

\* C3: in standard mode a room never has two accepted actions in flight, and
\* in its history every player line is directly followed by a GM line.
C3_OneActionAtATime ==
    ~DEBUG_MODE =>
        \A r \in LiveRooms :
            /\ ActionsInFlight(rooms[r]) <= 1
            /\ \A i \in DOMAIN RoomOf(r).history :
                  (RoomOf(r).history[i].who # "GM" /\ i < Len(RoomOf(r).history))
                      => RoomOf(r).history[i + 1].who = "GM"

\* the narration holds 'level complete' in any mix of upper and lower case
HasMarker(text) ==
    \E i \in 1..Len(text) :
        i + Len(LEVEL_MARKER) - 1 <= Len(text)
        /\ toLowerCase(SubSeq(text, i, i + Len(LEVEL_MARKER) - 1)) = LEVEL_MARKER

ImageWaits == {t \in BagToSet(tasks) : t.pc = "img"}
Delivered(t) == AfterImage(Taken(t), t, "generated")

\* C4 as stated: delivering a narration (initial, answer to an action, GM pass)
\* raises the room's level by one exactly when the narration holds the marker.
C4_AnyNarrationLevels ==
    \A t \in ImageWaits :
        Delivered(t).heap[t.obj].level =
            heap[t.obj].level + (IF HasMarker(t.resp) THEN 1 ELSE 0)

\* C4 amended: only the narration of a GM pass counts; delivering it raises the
\* level by one exactly when it holds the marker, delivering an initial
\* narration or the answer to an action leaves the level as it is; in fast-debug
\* mode, where every narration is canned, the level stays 1.
C4_GmPassLevels ==
    /\ \A t \in ImageWaits :
          Delivered(t).heap[t.obj].level =
              heap[t.obj].level
                  + (IF t.kind = "gmpass" /\ HasMarker(t.resp) THEN 1 ELSE 0)
    /\ FAST_DEBUG => \A r \in LiveRooms : RoomOf(r).level = 1

\* a room that has been raised above level 1, with the answer to an action that
\* holds the marker about to be delivered
C4_Witness ==
    \E t \in ImageWaits :
        /\ t.kind # "gmpass" /\ HasMarker(t.resp)
        /\ heap[t.obj].level > 1

Emits(st, r, evs) == \E i \in DOMAIN st.out : st.out[i].rm = r /\ st.out[i].ev \in evs

\* C5: once a room's level exceeds 5, no continuation that runs for it
\* broadcasts playerTurn or gmTurn any more.
C5_SilentAfterEnd ==
    \A t \in ImageWaits :
        (rooms[t.roomId] = t.obj /\ heap[t.obj].level > END_LEVEL)
            => ~Emits(Delivered(t), t.roomId, {"playerTurn", "gmTurn"})

\* C6: the players list of a room is never longer than the capacity, 1 in
\* debug mode and 3 in standard mode.
C6_Capacity ==
    \A r \in LiveRooms : Len(RoomOf(r).players) <= (IF DEBUG_MODE THEN 1 ELSE 3)

\* a room at capacity and an unseated connection whose joinRoom is turned away
C6_Witness ==
    \E r \in LiveRooms : \E c \in live :
        /\ Len(RoomOf(r).players) = (IF DEBUG_MODE THEN 1 ELSE 3)
        /\ ~Contains(RoomOf(r).players, c)
        /\ onJoinRoom(Cur, c, r, NameOf(c)).out = <<ErrorTo(c, ERR_ROOM_FULL)>>

\* C7: a registered room has a player, and a room whose seated connections
\* have all disconnected is no longer registered.
C7_NoDanglingRoom ==
    \A r \in LiveRooms :
        /\ RoomOf(r).players # <<>>
        /\ \E i \in DOMAIN RoomOf(r).players : RoomOf(r).players[i] \in live

NoDuplicate(players) ==
    \A i, j \in DOMAIN players : players[i] = players[j] => i = j

Without(players, c) == SelectSeq(players, LAMBDA p : p # c)

PlayersAfter(st, r) == st.heap[rooms[r]].players

\* C8 as stated: a joinRoom from a connection seated in the room leaves the
\* room's players list as it was.
C8_RejoinKeepsList ==
    \A r \in LiveRooms : \A c \in live : \A i \in DOMAIN ClientNames :
        Contains(RoomOf(r).players, c)
            => PlayersAfter(onJoinRoom(Cur, c, r, ClientNames[i]), r) = RoomOf(r).players

\* C8 amended: no players list holds a connection twice; a joinRoom from a
\* connection seated in the room keeps that connection's single seat, and the
\* list is the one before the join, or the one before the join without the
\* connection that held the username and was disconnected for it.
C8_RejoinKeepsSeat ==
    \A r \in LiveRooms :
        /\ NoDuplicate(RoomOf(r).players)
        /\ \A c \in live : \A i \in DOMAIN ClientNames :
              Contains(RoomOf(r).players, c) =>
                LET u == ClientNames[i]
                    after == PlayersAfter(onJoinRoom(Cur, c, r, u), r)
                IN /\ Len(Without(after, c)) = Len(after) - 1
                   /\ \/ after = RoomOf(r).players
                      \/ /\ has(connectedUsers, u)
                         /\ get(connectedUsers, u) \in live \ {c}
                         /\ after = Without(RoomOf(r).players, get(connectedUsers, u))

\* a room of at least two players in which a seated connection's repeated
\* joinRoom is answered with playersUpdate and changes no seat, and in which
\* another seated connection's username, if joined under, costs that
\* connection its seat
C8_Witness ==
    \E r \in LiveRooms : \E c, d \in live :
        /\ c # d
        /\ Contains(RoomOf(r).players, c) /\ Contains(RoomOf(r).players, d)
        /\ LET st == onJoinRoom(Cur, c, r, sock[c].username)
           IN /\ PlayersAfter(st, r) = RoomOf(r).players
              /\ Emits(st, r, {"playersUpdate"})
        /\ PlayersAfter(onJoinRoom(Cur, c, r, sock[d].username), r)
              = Without(RoomOf(r).players, d)

\* C9: createRoom from a connection that has a room, joinRoom of an unseated
\* connection on a room at capacity and action on an unknown room id are
\* answered with one error event to the sender and change nothing.
C9_ErrorsChangeNothing ==
    \A c \in live : \A r \in RoomIds : \A i \in DOMAIN ClientNames :
        LET u == ClientNames[i] IN
        /\ sock[c].roomId # NoRoom =>
              LET st == onCreateRoom(Cur, c, u, r)
              IN st.out = <<ErrorTo(c, ERR_ALREADY_IN_ROOM)>> /\ Effect(st) = Cur
        /\ (/\ r \in LiveRooms
            /\ Len(RoomOf(r).players) >= (IF DEBUG_MODE THEN 1 ELSE 3)
            /\ ~Contains(RoomOf(r).players, c)) =>
              LET st == onJoinRoom(Cur, c, r, u)
              IN st.out = <<ErrorTo(c, ERR_ROOM_FULL)>> /\ Effect(st) = Cur
        /\ r \notin LiveRooms =>
              \A j \in DOMAIN ActionTypes :
                  LET st == onAction(Cur, c, r, ActionTypes[j], ActionText)
                  IN st.out = <<ErrorTo(c, ERR_ROOM_NOT_FOUND)>> /\ Effect(st) = Cur

\* a connection that has a room, next to a room at capacity with an unseated
\* connection and a room id that is not registered
C9_Witness ==
    /\ \E c \in live : sock[c].roomId # NoRoom
    /\ \E r \in LiveRooms : \E c \in live :
          /\ Len(RoomOf(r).players) >= (IF DEBUG_MODE THEN 1 ELSE 3)
          /\ ~Contains(RoomOf(r).players, c)
          /\ connectedUsers # <<>>
    /\ \E r \in RoomIds : r \notin LiveRooms

\* C10: an accepted action of type 'say' broadcasts sayMessage and does
\* nothing else: no history line, no narration, turn and level as they were.
C10_SayIsChatOnly ==
    \A r \in LiveRooms : \A c \in live :
        isValidTurn(RoomOf(r), c) =>
            LET st == onAction(Cur, c, r, "say", ActionText)
            IN /\ st.out = <<[ev |-> "sayMessage", rm |-> r, to |-> groups[r],
                              arg |-> [from |-> sock[c].username, text |-> ActionText]]>>
               /\ Effect(st) = Cur

\* C11: joinRoom(r, u) of connection c on a registered room that is not at
\* capacity, while another live connection holds username u, completes with
\* that connection disconnected, c seated in r, u mapped to c and playersUpdate
\* broadcast to r.
C11_TakeoverCompletes ==
    \A r \in LiveRooms : \A c \in live : \A i \in DOMAIN ClientNames :
        LET u == ClientNames[i] IN
        (/\ Len(RoomOf(r).players) < (IF DEBUG_MODE THEN 1 ELSE 3)
         /\ has(connectedUsers, u)
         /\ get(connectedUsers, u) \in live \ {c}) =>
            LET st == onJoinRoom(Cur, c, r, u)
            IN /\ ~st.threw
               /\ get(connectedUsers, u) \notin st.live
               /\ st.rooms[r] # NoObj
               /\ Contains(st.heap[st.rooms[r]].players, c)
               /\ has(st.connectedUsers, u) /\ get(st.connectedUsers, u) = c
               /\ Emits(st, r, {"playersUpdate"})

\* The waiting room alone: connections come and go, create and join rooms, and
\* join timers fire; every armed timer fires in the end.
InitLobby == Init /\ ~DEBUG_MODE /\ FAST_DEBUG

NextLobby ==
    \/ Connect
    \/ \E c \in Conns, r \in RoomIds : r \in KnownRooms(c) /\ CreateRoom(c, NameOf(c), r)
    \/ \E c \in Conns, r \in RoomIds : r \in KnownRooms(c) /\ JoinRoom(c, r, NameOf(c))
    \/ \E c \in Conns : Disconnect(c)
    \/ \E r \in RoomIds, cur \in BOOLEAN : JoinTimerFire([roomId |-> r, cur |-> cur])

LobbySpec ==
    /\ InitLobby
    /\ [][NextLobby]_vars
    /\ \A r \in RoomIds, cur \in BOOLEAN :
          WF_vars(JoinTimerFire([roomId |-> r, cur |-> cur]))

\* the state in which the callback of timer tm runs
TimerTaken(tm) ==
    LET s0 == [Cur EXCEPT !.timers = @ (-) SetToBag({tm})]
    IN IF tm.cur THEN [s0 EXCEPT !.heap[rooms[tm.roomId]].timeout = FALSE] ELSE s0

\* In standard mode a join timer that fires for a room of fewer than three
\* players broadcasts the error to it and removes it from the registry.
TimeoutRemovesShortRoom ==
    (~DEBUG_MODE /\ ~crashed) =>
        \A tm \in BagToSet(timers) :
            (tm.roomId \in LiveRooms /\ Len(RoomOf(tm.roomId).players) < 3) =>
                LET st == onJoinTimeout(TimerTaken(tm), tm.roomId)
                IN /\ st.rooms[tm.roomId] = NoObj
                   /\ st.out = <<[ev |-> "error", rm |-> tm.roomId,
                                  to |-> groups[tm.roomId], arg |-> ERR_INSUFFICIENT]>>

\* C12: in standard mode a registered room is in the end full (three players)
\* or gone from the registry, by its join timer or by its last player leaving.
C12_ShortRoomGoes ==
    \A r \in RoomIds :
        (r \in LiveRooms) ~> (r \notin LiveRooms \/ Len(RoomOf(r).players) >= 3)

\* startGame has run for the room: in standard mode every room is created with
\* its join timer armed, and only startGame clears it
Started(r) == ~DEBUG_MODE /\ ~RoomOf(r).timeout

JoinAllowed(c, r) == rooms[r] # NoObj \/ CanCreate(Cur, r)
Succeeded(st) == ~st.threw /\ ~Emits(st, NoRoom, {"error"})

\* C14: after a joinRoom that succeeded, also one that created the room, the
\* identity registry maps the connection's username to the connection.
C14_JoinRegisters ==
    \A c \in live : \A r \in RoomIds : \A i \in DOMAIN ClientNames :
        JoinAllowed(c, r) =>
            LET st == onJoinRoom(Cur, c, r, ClientNames[i])
                u == st.sock[c].username
            IN Succeeded(st) =>
                  has(st.connectedUsers, u) /\ get(st.connectedUsers, u) = c

\* C15: after the disconnect handler of a connection has run, the connection's
\* id is not in the set of connected ids.
C15_DisconnectForgets ==
    \A c \in live : c \notin onDisconnect(Cur, c).connectedSockets

\* C16: the disconnect of a connection seated in a room in which others remain
\* takes it out of the players list, broadcasts playerLeft if it had a
\* username, and then playersUpdate with the usernames of those who remain.
C16_LeaveIsAnnounced ==
    \A r \in LiveRooms : \A c \in live :
        (/\ sock[c].roomId = r
         /\ Contains(RoomOf(r).players, c)
         /\ Len(RoomOf(r).players) > 1) =>
            LET st == onDisconnect(Cur, c)
                rest == Without(RoomOf(r).players, c)
                left == [ev |-> "playerLeft", rm |-> r, to |-> groups[r] \ {c},
                         arg |-> sock[c].username]
                upd == [ev |-> "playersUpdate", rm |-> r, to |-> groups[r] \ {c},
                        arg |-> playerNames(Cur, rest)]
            IN /\ ~st.threw
               /\ PlayersAfter(st, r) = rest
               /\ st.out = IF sock[c].username # NoName THEN <<left, upd>> ELSE <<upd>>

\* room B is registered as before and its object is as before
Frame(st, B) == st.rooms[B] = rooms[B] /\ st.heap[rooms[B]] = RoomOf(B)

\* room B lost the connection that held username u, and nothing else
Evicted(st, B, c, u) ==
    /\ has(connectedUsers, u)
    /\ get(connectedUsers, u) \in live \ {c}
    /\ sock[get(connectedUsers, u)].roomId = B
    /\ LET rest == Without(RoomOf(B).players, get(connectedUsers, u))
       IN IF rest = <<>> THEN st.rooms[B] = NoObj
          ELSE /\ st.rooms[B] = rooms[B]
               /\ st.heap[rooms[B]] = [RoomOf(B) EXCEPT !.players = rest]

\* what the handlers other than joinRoom leave of room B when they run for A
OthersFrame(A, B) ==
    /\ \A c \in live : \A i \in DOMAIN ClientNames :
          (sock[c].roomId # NoRoom \/ CanCreate(Cur, A))
              => Frame(onCreateRoom(Cur, c, ClientNames[i], A), B)
    /\ \A c \in live : \A j \in DOMAIN ActionTypes :
          Frame(onAction(Cur, c, A, ActionTypes[j], ActionText), B)
    /\ \A t \in BagToSet(tasks) :
          t.roomId = A =>
              /\ t.obj # rooms[B]
              /\ t.pc = "timer" => Frame(Narrate(Taken(t), t), B)
              /\ t.pc = "img" => Frame(Delivered(t), B)
    /\ \A tm \in BagToSet(timers) :
          tm.roomId = A => Frame(onJoinTimeout(TimerTaken(tm), A), B)

\* C17 as stated: an event handled for room A leaves every other registered
\* room B registered and its players, turn, level, history and memory as they were.
C17_RoomsIndependent ==
    \A A \in RoomIds : \A B \in LiveRooms \ {A} :
        /\ OthersFrame(A, B)
        /\ \A c \in live : \A i \in DOMAIN ClientNames :
              JoinAllowed(c, A) => Frame(onJoinRoom(Cur, c, A, ClientNames[i]), B)

\* C17 amended: the same, except that a joinRoom for A under a username held
\* by another live connection disconnects that connection, which takes it out
\* of the players list of the room B it sits in and deletes B when it was B's
\* only player.
C17_IndependentButTakeover ==
    \A A \in RoomIds : \A B \in LiveRooms \ {A} :
        /\ OthersFrame(A, B)
        /\ \A c \in live : \A i \in DOMAIN ClientNames :
              JoinAllowed(c, A) =>
                  LET st == onJoinRoom(Cur, c, A, ClientNames[i])
                  IN Frame(st, B) \/ Evicted(st, B, c, ClientNames[i])

\* two registered rooms, a join timer pending for one of them, and a username
\* whose holder sits in the other and would lose its seat there to a joinRoom
\* for the first
C17_Witness ==
    \E A \in LiveRooms : \E B \in LiveRooms \ {A} :
        /\ \E tm \in BagToSet(timers) : tm.roomId = A
        /\ \E c \in live : \E i \in DOMAIN ClientNames :
              LET st == onJoinRoom(Cur, c, A, ClientNames[i])
              IN ~Frame(st, B) /\ Evicted(st, B, c, ClientNames[i])

TurnEvent(st, r) ==
    \E i \in DOMAIN st.out :
        /\ st.out[i].rm = r
        /\ \/ st.out[i].ev = "gmTurn" /\ st.heap[st.rooms[r]].turn = GM
           \/ st.out[i].ev = "playerTurn" /\ st.heap[st.rooms[r]].turn = st.out[i].arg

\* C18: whatever the LLM request and the image request come to, the narration
\* awaited is a value (the answer or the placeholder) and so is the image; no
\* error event is sent; the accepted action broadcasts gmUpdate with them,
\* appends the GM line to the history and advances the turn of its room.
C18_FailuresRecovered ==
    \A t \in ImageWaits :
        /\ t.resp # ""
        /\ ~MISTRAL_API_KEY => t.resp = PLACEHOLDER
        /\ (t.kind = "action" /\ rooms[t.roomId] = t.obj) =>
              \A image \in {"generated", "fallback"} :
                  LET st == AfterImage(Taken(t), t, image)
                  IN /\ ~st.threw
                     /\ \A i \in DOMAIN st.out : st.out[i].ev # "error"
                     /\ st.out[1] = [ev |-> "gmUpdate", rm |-> t.roomId,
                                     to |-> groups[t.roomId],
                                     arg |-> [text |-> t.resp, image |-> image]]
                     /\ st.heap[t.obj].history = Append(heap[t.obj].history, GmLine(t.resp))
                     /\ TurnEvent(st, t.roomId)

\* the narration of an accepted action has failed and its image is awaited
C18_Witness ==
    /\ ~MISTRAL_API_KEY
    /\ \E t \in ImageWaits :
          t.kind = "action" /\ rooms[t.roomId] = t.obj /\ t.resp = PLACEHOLDER

\* C19: while the initial narration of a room is awaited, gameStart not yet
\* broadcast, no action for the room is accepted.
C19_NoActionBeforeStart ==
    \A r \in LiveRooms :
        (\E t \in BagToSet(tasks) : t.kind = "start" /\ t.obj = rooms[r]) =>
            \A c \in live : \A j \in DOMAIN ActionTypes :
                LET st == onAction(Cur, c, r, ActionTypes[j], ActionText)
                IN st.out = <<ErrorTo(c, ERR_NOT_YOUR_TURN)>> /\ Effect(st) = Cur

Events(st) == [i \in DOMAIN st.out |-> st.out[i].ev]
TimerTaskOn(st, r) ==
    BagIn(NewTask("gmpass", r, rooms[r], "timer"), st.tasks)

\* C20: in debug mode, in a room just started, an accepted 'use' appends the
\* player's line and then the GM's answer and nothing else; the answer is
\* followed by gmTurn and the delayed GM pass; the pass broadcasts gmUpdate and
\* then playerTurn(1), with levelComplete in between and the level raised from
\* 1 to 2 when its narration holds the marker.
C20_DebugRound ==
    DEBUG_MODE =>
        /\ \A r \in LiveRooms : \A c \in live :
              (/\ Contains(RoomOf(r).players, c)
               /\ Len(RoomOf(r).history) = 1 /\ RoomOf(r).turn = 1
               /\ ~HeldByTask(Cur, rooms[r])) =>
                  LET st == onAction(Cur, c, r, "use", ActionText)
                      line == PlayerLine(sock[c].username, "use", ActionText)
                      h == st.heap[rooms[r]].history
                  IN IF FAST_DEBUG
                     THEN /\ h = RoomOf(r).history \o <<line, GmLine(CANNED_PROGRESS)>>
                          /\ Events(st) = <<"sayMessage", "gmUpdate", "gmTurn">>
                          /\ TimerTaskOn(st, r)
                     ELSE /\ h = Append(RoomOf(r).history, line)
                          /\ \E t \in BagToSet(st.tasks) :
                                t.kind = "action" /\ t.obj = rooms[r]
        /\ \A t \in ImageWaits :
              rooms[t.roomId] = t.obj =>
                  LET st == Delivered(t)
                      h == st.heap[t.obj].history
                  IN /\ t.kind = "action" =>
                          /\ h = Append(heap[t.obj].history, GmLine(t.resp))
                          /\ Events(st) = <<"gmUpdate", "gmTurn">>
                          /\ st.heap[t.obj].turn = GM
                          /\ TimerTaskOn(st, t.roomId)
                     /\ (t.kind = "gmpass" /\ heap[t.obj].level = 1) =>
                          IF HasMarker(t.resp)
                          THEN /\ Events(st) = <<"gmUpdate", "levelComplete", "playerTurn">>
                               /\ st.out[2].arg.level = 2
                               /\ st.heap[t.obj].level = 2
                               /\ st.out[3].arg = 1 /\ st.heap[t.obj].turn = 1
                          ELSE /\ Events(st) = <<"gmUpdate", "playerTurn">>
                               /\ st.heap[t.obj].level = 1
                               /\ st.out[2].arg = 1 /\ st.heap[t.obj].turn = 1
        /\ \A t \in BagToSet(tasks) :
              (FAST_DEBUG /\ t.pc = "timer" /\ rooms[t.roomId] = t.obj) =>
                  LET st == Narrate(Taken(t), t)
                  IN /\ Events(st) = <<"gmUpdate", "playerTurn">>
                     /\ st.heap[t.obj].turn = 1

\* the first round of a debug room at the point where the GM pass, whose
\* narration ends the level, is about to be delivered: the history holds the
\* initial narration, the player's 'use' line and the GM's answer
C20_Witness ==
    /\ DEBUG_MODE
    /\ \E t \in ImageWaits :
          /\ t.kind = "gmpass" /\ HasMarker(t.resp) /\ rooms[t.roomId] = t.obj
          /\ heap[t.obj].level = 1
          /\ Len(heap[t.obj].history) = 3
          /\ heap[t.obj].history[1].who = "GM"
          /\ heap[t.obj].history[2].type = "use"
          /\ heap[t.obj].history[3].who = "GM"

\* the narration events among what a handler emitted
NarrationEvents(st) ==
    {i \in DOMAIN st.out : st.out[i].ev \in {"gameStart", "gmUpdate"}}

\* a handler's narrations are the canned ones with the fallback image, and the
\* continuations it leaves wait for a timer only
CannedOnly(st) ==
    /\ \A i \in NarrationEvents(st) :
          st.out[i].arg = [text |-> IF st.out[i].ev = "gameStart"
                                    THEN CANNED_INITIAL ELSE CANNED_PROGRESS,
                           image |-> "fallback"]
    /\ \A t \in BagToSet(st.tasks) : t.pc = "timer"
    /\ \A o \in ObjIds :
          /\ st.heap[o].gameMemory = <<>>
          /\ \A l \in Levels : st.heap[o].levelGoals[l] = NoGoal

\* C21: with FAST_DEBUG every narration sent is the canned text for its kind
\* (the initial one in gameStart, the progress one in gmUpdate) with the
\* fallback image URL, and no request to the LLM or to the image service is
\* pending or issued, the memory summariser's included: no goal, summary or
\* compressed memory is ever written.
C21_FastDebugIsCanned ==
    FAST_DEBUG =>
        /\ CannedOnly(Cur)
        /\ \A c \in live : \A i \in DOMAIN ClientNames : \A r \in RoomIds :
              /\ (sock[c].roomId # NoRoom \/ CanCreate(Cur, r))
                    => CannedOnly(onCreateRoom(Cur, c, ClientNames[i], r))
              /\ (rooms[r] # NoObj \/ CanCreate(Cur, r))
                    => CannedOnly(onJoinRoom(Cur, c, r, ClientNames[i]))
        /\ \A c \in live : \A r \in RoomIds : \A j \in DOMAIN ActionTypes :
              CannedOnly(onAction(Cur, c, r, ActionTypes[j], ActionText))
        /\ \A t \in BagToSet(tasks) : CannedOnly(Narrate(Taken(t), t))
        /\ \A o \in ObjIds : \A i \in DOMAIN heap[o].history :
              heap[o].history[i].who = "GM" =>
                  heap[o].history[i].text \in {CANNED_INITIAL, CANNED_PROGRESS}

\* a fast standard room after its start and one accepted action: the history
\* holds the initial canned text, the player's line and the progress text
C21_Witness ==
    /\ FAST_DEBUG
    /\ \E r \in LiveRooms :
          /\ Len(RoomOf(r).history) >= 3
          /\ RoomOf(r).history[1] = GmLine(CANNED_INITIAL)
          /\ RoomOf(r).history[3] = GmLine(CANNED_PROGRESS)

\* data.choices[0].message.content of a given length
RECURSIVE ContentOfLength(_)
ContentOfLength(n) ==
    IF n = 0 THEN "" ELSE IF n = 1 THEN "x"
    ELSE ContentOfLength(n \div 2) \o ContentOfLength(n - n \div 2)

\* getGmResponse on its own: one call at a time returns to its caller, for
\* either kind of narration, an answer of any length up to MaxContentLen or a
\* failed request; the caller holds the string while it awaits the image.
GmResponded(isInitial, ok, n) ==
    /\ tasks = EmptyBag
    /\ tasks' = SetToBag({[NewTask(IF isInitial THEN "start" ELSE "action",
                                   PlayRoom, NoObj, "img")
                             EXCEPT !.resp = getGmResponse(isInitial, ok,
                                                           ContentOfLength(n))]})
    /\ UNCHANGED <<DEBUG_MODE, FAST_DEBUG, MISTRAL_API_KEY, issued, live,
                   connectedSockets, connectedUsers, sock, groups, rooms, heap,
                   timers, crashed>>

GmResponseUsed ==
    /\ tasks # EmptyBag
    /\ tasks' = EmptyBag
    /\ UNCHANGED <<DEBUG_MODE, FAST_DEBUG, MISTRAL_API_KEY, issued, live,
                   connectedSockets, connectedUsers, sock, groups, rooms, heap,
                   timers, crashed>>

NextNarration ==
    \/ \E isInitial \in BOOLEAN, ok \in BOOLEAN, n \in 0..MaxContentLen :
          GmResponded(isInitial, ok, n)
    \/ GmResponseUsed

NarrationSpec == Init /\ [][NextNarration]_vars

\* C22: every string getGmResponse returns, and so every GM line of a history,
\* is at most 250 characters long: the model's answer of any length, the
\* failure placeholder and the two canned strings.
C22_NarrationAtMost250 ==
    /\ \A t \in BagToSet(tasks) : Len(t.resp) <= 250
    /\ \A o \in ObjIds : \A i \in DOMAIN heap[o].history :
          heap[o].history[i].who = "GM" => Len(heap[o].history[i].text) <= 250

\* the answer returned for the longest upstream content is its first 250
\* characters
C22_Witness ==
    /\ ~FAST_DEBUG
    /\ MaxContentLen > 250
    /\ \E t \in BagToSet(tasks) : t.resp = ContentOfLength(250)

\* the memory passes (updateGameMemory) that are suspended on room object o
MemoryPasses(o) ==
    {t \in BagToSet(tasks) : t.obj = o /\ t.pc \in {"goal", "summ", "comp"}}

\* C23: a memory pass that found more than 3 entries at its compaction check
\* leaves gameMemory with exactly one entry, of the room's current level, whose
\* summary is the compressed text or the fixed default when the request failed;
\* while no memory pass is in flight on a room its gameMemory holds at most 3
\* entries.
C23_MemoryCompacted ==
    ~FAST_DEBUG =>
        /\ \A t \in BagToSet(tasks) :
              t.pc = "comp" =>
                  LET m == onMemoryCompressed(Taken(t), t).heap[t.obj].gameMemory
                  IN /\ Len(m) = 1
                     /\ m[1].level = heap[t.obj].level
                     /\ m[1].summary = IF MISTRAL_API_KEY THEN "llm"
                                       ELSE "Klucevye sobytia putesestvia"
        /\ \A o \in ObjIds : MemoryPasses(o) = {} => Len(heap[o].gameMemory) <= 3

\* a pass suspended on the compaction request of a memory of four entries
C23_Witness ==
    /\ ~FAST_DEBUG
    /\ \E t \in BagToSet(tasks) :
          /\ t.pc = "comp"
          /\ Len(heap[t.obj].gameMemory) = 4
          /\ rooms[t.roomId] = t.obj

\* the last n entries of a sequence, all of it when it is shorter
LastOf(h, n) == [i \in 1..(IF Len(h) < n THEN Len(h) ELSE n) |->
                    h[i + (IF Len(h) < n THEN 0 ELSE Len(h) - n)]]

\* C24: a memory pass that found more than 4 history entries appends one memory
\* entry (of the current level, the summary or its default) and replaces the
\* history by its last two entries; lines pushed afterwards come on top of
\* these.  The pass leaves a history that was not empty not empty.
C24_HistoryTrimmed ==
    ~FAST_DEBUG =>
        \A t \in BagToSet(tasks) :
            t.pc = "summ" =>
                LET before == heap[t.obj]
                    after == onSummaryFetched(Taken(t), t).heap[t.obj]
                IN /\ after.gameMemory =
                          Append(before.gameMemory,
                                 [level |-> before.level,
                                  summary |-> IF MISTRAL_API_KEY THEN "llm"
                                              ELSE "Igroki prodvigautsa vpered"])
                   /\ after.history = LastOf(before.history, 2)
                   /\ Len(after.history) <= 2
                   /\ Len(before.history) > 4 => Len(after.history) = 2
                   /\ before.history # <<>> => after.history # <<>>

\* a pass suspended on the summary request of a history of five lines or more
C24_Witness ==
    /\ ~FAST_DEBUG
    /\ \E t \in BagToSet(tasks) :
          t.pc = "summ" /\ Len(heap[t.obj].history) > 4

\* what the narration of the accepted action of player k of N leaves, `before`
\* being the continuations that were pending: the turn of player k + 1
\* announced at once, or the GM's turn announced and the GM pass scheduled
AfterPlayer(st, r, k, N, before) ==
    LET n == Len(st.out)
        turnEvents == {i \in DOMAIN st.out : st.out[i].ev \in {"playerTurn", "gmTurn"}}
    IN /\ n >= 2
       /\ st.out[n - 1].ev = "gmUpdate"
       /\ turnEvents = {n}
       /\ IF k < N
          THEN /\ st.heap[rooms[r]].turn = k + 1
               /\ st.out[n] = [ev |-> "playerTurn", rm |-> r, to |-> groups[r], arg |-> k + 1]
               /\ st.tasks = before
          ELSE /\ st.heap[rooms[r]].turn = GM
               /\ st.out[n].ev = "gmTurn" /\ st.out[n].rm = r
               /\ st.tasks = before (+) SetToBag({NewTask("gmpass", r, rooms[r], "timer")})

\* what the GM pass leaves: turn 1 announced last, or the end of the game
AfterGmPass(st, r) ==
    LET room == st.heap[rooms[r]]
        last == st.out[Len(st.out)]
    IN /\ st.out[1].ev = "gmUpdate"
       /\ IF room.level > END_LEVEL
          THEN room.turn = GM /\ last.ev = "gameEnd"
          ELSE room.turn = 1
               /\ last = [ev |-> "playerTurn", rm |-> r, to |-> groups[r], arg |-> 1]

\* C25: in a standard room of N players where the player on turn is the one
\* whose action is narrated, the turn after player k < N is k + 1, announced
\* by playerTurn(k + 1) in the same step; after player N the turn is the GM's,
\* gmTurn is announced, no playerTurn is, and the GM pass is scheduled; the GM
\* pass sets the turn to 1 and announces playerTurn(1).
C25_TurnOrder ==
    ~DEBUG_MODE =>
        \A r \in LiveRooms :
            LET o == rooms[r]
                N == Len(RoomOf(r).players)
                k == RoomOf(r).turn
            IN /\ \A c \in live :
                     (FAST_DEBUG /\ k # GM /\ Seat(r, c) = k) =>
                         AfterPlayer(onAction(Cur, c, r, "use", ActionText), r, k, N, tasks)
               /\ \A t \in ImageWaits :
                     (/\ t.kind = "action" /\ t.obj = o
                      /\ k # GM /\ k <= N /\ ActionsInFlight(o) = 1) =>
                         AfterPlayer(Delivered(t), r, k, N, Taken(t).tasks)
               /\ \A t \in BagToSet(tasks) :
                     (t.kind = "gmpass" /\ t.obj = o /\ k = GM) =>
                         /\ (FAST_DEBUG /\ t.pc = "timer")
                               => AfterGmPass(Narrate(Taken(t), t), r)
                         /\ t.pc = "img" => AfterGmPass(Delivered(t), r)

\* a standard room of three after its first full round: the start, the three
\* players' lines each with its narration, and the GM pass; player 1 is on turn
C25_Witness ==
    /\ ~DEBUG_MODE
    /\ \E r \in LiveRooms :
          LET h == RoomOf(r).history IN
          /\ Len(RoomOf(r).players) = 3
          /\ Len(h) = 8
          /\ \A i \in {1, 3, 5, 7, 8} : h[i].who = "GM"
          /\ \A i \in {1, 2, 3} : h[2 * i].who = sock[RoomOf(r).players[i]].username
          /\ RoomOf(r).turn = 1

\* One standard game with fast-debug: clients connect, join the play room (the
\* first join creates it), act and leave; every timer that is armed fires in
\* the end, the join timer and the GM passes' delays.
InitGame == Init /\ ~DEBUG_MODE /\ FAST_DEBUG

GmTimers == {NewTask("gmpass", PlayRoom, o, "timer") : o \in ObjIds}

NextGame ==
    \/ Connect
    \/ \E c \in Conns : JoinRoom(c, PlayRoom, NameOf(c))
    \/ \E c \in Conns : Action(c, PlayRoom, TypeOf(c))
    \/ \E c \in Conns : Disconnect(c)
    \/ \E cur \in BOOLEAN : JoinTimerFire([roomId |-> PlayRoom, cur |-> cur])
    \/ \E t \in GmTimers : GmTimerFire(t)

GameSpec ==
    /\ InitGame
    /\ [][NextGame]_vars
    /\ \A cur \in BOOLEAN : WF_vars(JoinTimerFire([roomId |-> PlayRoom, cur |-> cur]))
    /\ \A t \in GmTimers : WF_vars(GmTimerFire(t))

\* nextTurn has given room r, held in object o, to the GM: the pass is scheduled
GmTurnOf(r, o) ==
    /\ rooms[r] = o
    /\ heap[o].turn = GM
    /\ BagIn(NewTask("gmpass", r, o, "timer"), tasks)

\* the GM's turn of room r is over: player 1 is on turn or the game has ended
\* (or the room is no longer there)
GmTurnOver(r, o) ==
    \/ rooms[r] # o
    \/ heap[o].turn = 1
    \/ heap[o].level > END_LEVEL

\* C26: every GM turn that nextTurn starts ends: the room gets turn 1 (with
\* playerTurn(1)) or, past level 5, the end of the game.
C26_GmTurnEnds ==
    \A o \in ObjIds : GmTurnOf(PlayRoom, o) ~> GmTurnOver(PlayRoom, o)

\* the same while the process lives
GmTurnEndsWhileAlive ==
    \A o \in ObjIds : GmTurnOf(PlayRoom, o) ~> (GmTurnOver(PlayRoom, o) \/ crashed)

\* C27: in standard mode, while the process runs, a started game that has not
\* ended, has a seated player and is on a player's turn has a seated player
\* whose connection is open and whose action the handler accepts.
C27_NoStall ==
    (~DEBUG_MODE /\ ~crashed) =>
        \A r \in LiveRooms :
            (/\ Started(r)
             /\ RoomOf(r).level <= END_LEVEL
             /\ Len(RoomOf(r).players) >= 1
             /\ RoomOf(r).turn # GM) =>
                \E c \in live :
                    /\ Contains(RoomOf(r).players, c)
                    /\ Accepted(onAction(Cur, c, r, "use", ActionText), c, r, "use")

\* the last line of the room's history is connection c's action and its
\* narration has not come back yet
AwaitsNarration(r, c) ==
    LET h == RoomOf(r).history IN
    /\ h # <<>>
    /\ h[Len(h)].who = sock[c].username /\ h[Len(h)].type # ""
    /\ \E t \in BagToSet(tasks) :
          t.kind = "action" /\ t.obj = rooms[r] /\ t.pc # "timer"

\* C28: in standard mode a seated player whose action is still being narrated
\* has no second action accepted: the action is answered 'not your turn' and
\* changes nothing, so that nobody acts twice between two GM passes.
C28_OncePerRound ==
    ~DEBUG_MODE =>
        \A r \in LiveRooms : \A c \in live :
            (Contains(RoomOf(r).players, c) /\ AwaitsNarration(r, c)) =>
                \A j \in DOMAIN ActionTypes :
                    LET st == onAction(Cur, c, r, ActionTypes[j], ActionText)
                    IN st.out = <<ErrorTo(c, ERR_NOT_YOUR_TURN)>> /\ Effect(st) = Cur

\* startGame has run for the room and its initial narration has been broadcast
\* and pushed
GameStarted(r) == RoomOf(r).history # <<>> /\ RoomOf(r).history[1].who = "GM"

StartsOf(st, o) ==
    BagCardinality([t \in {x \in BagToSet(st.tasks) : x.obj = o /\ x.kind = "start"}
                      |-> st.tasks[t]])

\* C29: a joinRoom for a room whose game has started does not start it again:
\* it broadcasts no gameStart, begins no initial narration and leaves the
\* room's turn as it is.
C29_StartsOnce ==
    \A r \in LiveRooms :
        GameStarted(r) =>
            \A c \in live : \A i \in DOMAIN ClientNames :
                LET st == onJoinRoom(Cur, c, r, ClientNames[i])
                IN st.rooms[r] = rooms[r] =>
                      /\ ~Emits(st, r, {"gameStart"})
                      /\ StartsOf(st, rooms[r]) = StartsOf(Cur, rooms[r])
                      /\ st.heap[rooms[r]].turn = RoomOf(r).turn

\* C30: an action that names room r and comes from a connection that is not in
\* r's players list changes nothing (no line, no narration, no turn step) and
\* is answered to its sender alone, in debug mode as in standard mode.
C30_OutsidersIgnored ==
    \A r \in LiveRooms : \A c \in live :
        ~Contains(RoomOf(r).players, c) =>
            \A j \in DOMAIN ActionTypes :
                LET st == onAction(Cur, c, r, ActionTypes[j], ActionText)
                IN /\ Effect(st) = Cur
                   /\ \A i \in DOMAIN st.out : st.out[i].to = {c}

\* the same in standard mode alone
OutsidersIgnoredStandard == ~DEBUG_MODE => C30_OutsidersIgnored

\* C31: every socket in the players list of a registered room is an open
\* connection, and it is in the players list of no other registered room.
C31_SeatedOnceAndLive ==
    \A r \in LiveRooms : \A i \in DOMAIN RoomOf(r).players :
        LET c == RoomOf(r).players[i] IN
        /\ c \in live
        /\ \A r2 \in LiveRooms \ {r} : ~Contains(RoomOf(r2).players, c)

\* continuation t was started for a room that is gone, and a later room is
\* registered under its id
Outlived(t) == rooms[t.roomId] # NoObj /\ rooms[t.roomId] # t.obj

\* the step of continuation t that broadcasts: the GM pass's delay running out
\* with fast-debug, or the image coming back
Resumed(t) == IF t.pc = "timer" THEN Narrate(Taken(t), t) ELSE Delivered(t)

\* C32: a continuation that has outlived its room changes nothing of the room
\* now registered under the same id, and none of the events it emits is
\* delivered to a member of that room.
C32_OrphanIsNoOp ==
    \A t \in BagToSet(tasks) :
        (Outlived(t) /\ (t.pc = "img" \/ (FAST_DEBUG /\ t.pc = "timer"))) =>
            LET st == Resumed(t)
                r == t.roomId
            IN /\ st.rooms[r] = rooms[r]
               /\ st.heap[rooms[r]] = RoomOf(r)
               /\ \A i \in DOMAIN st.out :
                     st.out[i].ev \in {"gameStart", "gmUpdate", "levelComplete",
                                       "playerTurn", "gameEnd"}
                         => st.out[i].to = {}

\* GM passes scheduled or running for room object o
GmPassesOn(o) == {t \in BagToSet(tasks) : t.obj = o /\ t.kind = "gmpass"}

\* C33: the level of a room is one of 1..6, also after any narration that is
\* about to be delivered, and once it has exceeded 5 (gameEnd has been
\* broadcast) no GM pass is scheduled or running for the room any more.
C33_EndIsFinal ==
    /\ \A r \in LiveRooms : RoomOf(r).level \in 1..(END_LEVEL + 1)
    /\ \A t \in ImageWaits : Delivered(t).heap[t.obj].level \in 1..(END_LEVEL + 1)
    /\ \A r \in LiveRooms :
          RoomOf(r).level > END_LEVEL => GmPassesOn(rooms[r]) = {}

\* the room is on a player's turn with nothing pending: the last event that set
\* its members' controls is the playerTurn broadcast with that turn
QuietTurn(r) ==
    /\ ~DEBUG_MODE /\ ~crashed
    /\ Started(r)
    /\ RoomOf(r).turn # GM
    /\ ~HeldByTask(Cur, rooms[r])

\* C34: in standard mode, on a player's turn k with no action pending, the
\* controls of the client seated at seat k are enabled and those of every other
\* member of the room are disabled.
C34_ControlsFollowTurn ==
    \A r \in LiveRooms :
        QuietTurn(r) =>
            \A c \in groups[r] :
                buttonsEnabled(RoomOf(r).turn, myTurnIndex(Cur, RoomOf(r).players, c))
                    <=> Seat(r, c) = RoomOf(r).turn

\* the turn of the play room names the seat of connection c, a member of the
\* room, and the client's controls are disabled: playerTurn with this turn did
\* not enable them
WaitsDisabled(c) ==
    /\ ~crashed
    /\ rooms[PlayRoom] # NoObj
    /\ Started(PlayRoom)
    /\ c \in live /\ c \in groups[PlayRoom]
    /\ RoomOf(PlayRoom).turn = Seat(PlayRoom, c)
    /\ ~buttonsEnabled(RoomOf(PlayRoom).turn,
                       myTurnIndex(Cur, RoomOf(PlayRoom).players, c))

\* C35: a client's controls never stay disabled for ever while the server's
\* turn names the client's seat: a broadcast enables them or the turn moves on.
C35_ControlsComeBack ==
    \A c \in Conns : WaitsDisabled(c) ~> ~WaitsDisabled(c)

\* the state after connection c has sent joinRoom for room r twice, as u1 and
\* then as u2, and has then disconnected
JoinedTwiceAndLeft(c, r, u1, u2) ==
    onDisconnect(onJoinRoom(onJoinRoom(Cur, c, r, u1), c, r, u2), c)

MapsTo(cu, c) == \E i \in DOMAIN cu : cu[i].id = c

\* C36: every id stored in the identity registry belongs to a live connection,
\* and after the disconnect handler of a connection has run no entry of the
\* registry maps a username to that connection's id, also when the connection
\* had joined under two usernames.
C36_RegistryForgets ==
    /\ \A i \in DOMAIN connectedUsers : connectedUsers[i].id \in live
    /\ \A c \in live : ~MapsTo(onDisconnect(Cur, c).connectedUsers, c)
    /\ \A c \in live : \A r \in LiveRooms : \A i, j \in DOMAIN ClientNames :
          (~onJoinRoom(Cur, c, r, ClientNames[i]).threw
           /\ ~onJoinRoom(onJoinRoom(Cur, c, r, ClientNames[i]), c, r, ClientNames[j]).threw)
              => ~MapsTo(JoinedTwiceAndLeft(c, r, ClientNames[i], ClientNames[j]).connectedUsers, c)

\* the lines of a room's history were narrated at the room's present level: the
\* history is emptied when the level is raised
NarratedAtLevel(r) == \E i \in DOMAIN RoomOf(r).history : RoomOf(r).history[i].who = "GM"

\* C37: with fast-debug, once a narration has been requested for a room at
\* level L the room's levelGoals has an entry for L, and neither the history
\* nor the memory has been summarised.
C37_FastGoalDefaulted ==
    FAST_DEBUG =>
        \A r \in LiveRooms :
            NarratedAtLevel(r) =>
                /\ RoomOf(r).levelGoals[RoomOf(r).level] # NoGoal
                /\ RoomOf(r).gameMemory = <<>>

\* the second half alone: with fast-debug nothing is ever summarised
FastNeverSummarises ==
    FAST_DEBUG =>
        /\ \A r \in LiveRooms : RoomOf(r).gameMemory = <<>>
        /\ \A t \in BagToSet(tasks) : t.kind = "gmpass" /\ t.pc = "timer"

\* the continuations of updateGameMemory that wait for the goal they requested
GoalWaits == {t \in BagToSet(tasks) : t.pc = "goal"}

\* C38: a level's goal is generated once: no pass waits for a goal while the
\* room's levelGoals already has an entry for the room's level, the entry under
\* which the pass will store the answer when it resumes.
C38_GoalOnce ==
    \A t \in GoalWaits : heap[t.obj].levelGoals[heap[t.obj].level] = NoGoal

\* C39: createRoom never replaces the registry entry of a live room: whatever
\* id it draws, a room registered under that id before is the same room, with
\* the same players and state, afterwards.
C39_CreateKeepsRooms ==
    \A c \in live : \A r \in LiveRooms : \A i \in DOMAIN ClientNames :
        JoinAllowed(c, r) =>
            LET st == onCreateRoom(Cur, c, ClientNames[i], r)
            IN st.rooms[r] # NoObj /\ st.heap[st.rooms[r]] = RoomOf(r)

\* the server is in standard mode: three players are required, createRoom arms
\* the join timer and starts no game, and an action of a connection that is not
\* on turn is refused
StandardMode ==
    /\ getRequiredPlayersCount = 3
    /\ \A c \in live : \A r \in RoomIds :
          (sock[c].roomId = NoRoom /\ JoinAllowed(c, r)) =>
              LET st == onCreateRoom(Cur, c, NameOf(c), r)
              IN /\ BagIn([roomId |-> r, cur |-> TRUE], st.timers)
                 /\ st.heap[st.rooms[r]].timeout
                 /\ ~Emits(st, r, {"gameStart", "playerTurn"})
                 /\ BagCardinality(st.tasks) = BagCardinality(tasks)
    /\ \A c \in live : \A r \in LiveRooms : \A i \in DOMAIN ActionTypes :
          Seat(r, c) # RoomOf(r).turn =>
              onAction(Cur, c, r, ActionTypes[i], ActionText).out
                  = <<ErrorTo(c, ERR_NOT_YOUR_TURN)>>

\* C40: a server started with a DEBUG_MODE setting other than 'true' is in
\* standard mode, whichever of the two server files it is started from.
C40_StandardUnlessTrue ==
    \A setting \in Settings \ {"true"} :
        /\ DEBUG_MODE = DEBUG_MODE_of(setting) => StandardMode
        /\ DEBUG_MODE = DEBUG_MODE_forced(setting) => StandardMode

\* the same for the server of part_001 alone, and its converse
StandardUnlessTrueFixed ==
    /\ \A setting \in Settings \ {"true"} :
          DEBUG_MODE = DEBUG_MODE_of(setting) => StandardMode
    /\ DEBUG_MODE = DEBUG_MODE_of("true") => getRequiredPlayersCount = 1

====
